---- MODULE Spec2Model ----
(***************************************************************************)
(* Connect Four: the board model (game.py), the heuristic evaluator, the   *)
(* alpha-beta search and the best-move selector (minimax.py), as state     *)
(* machines over the functions of the source.                              *)
(*   Spec        the board under calls of make_move                        *)
(*   SpecWinner  get_winner on arbitrary grids                             *)
(*   SpecSearch  get_best_move on positions of a game                      *)
(***************************************************************************)
EXTENDS Integers, Sequences, FiniteSets, TLC

\* ------------------------------------------------------------------ game.py

ROWS == 6
COLS == 7
EMPTY == 0
PLAYER_1 == 1
PLAYER_2 == 2
WIN_LENGTH == 4

\* Python's None (no winner, no returned board).
None == -1

\* float("inf") of minimax.py: greater than every value the search computes.
Inf == 1000000

Players == {PLAYER_1, PLAYER_2}
RowIdx == 0 .. ROWS - 1
ColIdx == 0 .. COLS - 1

Abs(x) == IF x < 0 THEN -x ELSE x
Max(a, b) == IF a >= b THEN a ELSE b
Min(a, b) == IF a <= b THEN a ELSE b

create_board == [row \in RowIdx |-> [col \in ColIdx |-> EMPTY]]

\* range(COLS) as a list
ColRange == [i \in 1 .. COLS |-> i - 1]

IsTopEmpty(board, col) == board[0][col] = EMPTY

\* (mutant) every column, full or not
get_legal_moves_All(board) == ColRange

get_legal_moves(board) == SelectSeq(ColRange, LAMBDA col : IsTopEmpty(board, col))

\* (mutant) the loop run from the top row down: "for row in range(ROWS)"
RECURSIVE LowestEmptyRow_FromTop(_, _, _)
LowestEmptyRow_FromTop(board, col, row) ==
    IF row < 0 THEN None
    ELSE IF board[ROWS - 1 - row][col] = EMPTY THEN ROWS - 1 - row
    ELSE LowestEmptyRow_FromTop(board, col, row - 1)

\* the loop "for row in range(ROWS - 1, -1, -1)" of make_move: the first
\* empty row met from the bottom, None when the loop ends without a break.
RECURSIVE LowestEmptyRow(_, _, _)
LowestEmptyRow(board, col, row) ==
    IF row < 0 THEN None
    ELSE IF board[row][col] = EMPTY THEN row
    ELSE LowestEmptyRow(board, col, row - 1)

\* board.copy() with the piece written in the copy.
PlacePiece(board, col, player) ==
    LET row == LowestEmptyRow(board, col, ROWS - 1)
    IN  IF row = None THEN board ELSE [board EXCEPT ![row][col] = player]

\* (mutant) the piece written in the argument array, without board.copy()
make_move_InPlace(board, col, player) ==
    IF col < 0 \/ col >= COLS
    THEN [raised |-> TRUE, new_board |-> None, board |-> board]
    ELSE IF board[0][col] # EMPTY
    THEN [raised |-> TRUE, new_board |-> None, board |-> board]
    ELSE [raised |-> FALSE, new_board |-> PlacePiece(board, col, player),
          board |-> PlacePiece(board, col, player)]

\* (mutant) the column tested for pieces at its bottom cell, not its top cell
make_move_BottomTest(board, col, player) ==
    IF col < 0 \/ col >= COLS
    THEN [raised |-> TRUE, new_board |-> None, board |-> board]
    ELSE IF board[ROWS - 1][col] # EMPTY
    THEN [raised |-> TRUE, new_board |-> None, board |-> board]
    ELSE [raised |-> FALSE, new_board |-> PlacePiece(board, col, player),
          board |-> board]

\* make_move as the caller sees it: whether ValueError was raised, the board
\* returned (None when it raised), and the contents of the argument array
\* after the call.
make_move(board, col, player) ==
    IF col < 0 \/ col >= COLS
    THEN [raised |-> TRUE, new_board |-> None, board |-> board]
    ELSE IF board[0][col] # EMPTY
    THEN [raised |-> TRUE, new_board |-> None, board |-> board]
    ELSE [raised |-> FALSE, new_board |-> PlacePiece(board, col, player),
          board |-> board]

\* (mutant) the horizontal loop stops one column early:
\* "for col in range(COLS - WIN_LENGTH)"
WindowLoops_ShortRows ==
    << [name |-> "horizontal", row0 |-> 0, row1 |-> ROWS - 1,
        col0 |-> 0, col1 |-> COLS - WIN_LENGTH - 1, drow |-> 0, dcol |-> 1],
       [name |-> "vertical", row0 |-> 0, row1 |-> ROWS - WIN_LENGTH,
        col0 |-> 0, col1 |-> COLS - 1, drow |-> 1, dcol |-> 0],
       [name |-> "diagonal_down", row0 |-> 0, row1 |-> ROWS - WIN_LENGTH,
        col0 |-> 0, col1 |-> COLS - WIN_LENGTH, drow |-> 1, dcol |-> 1],
       [name |-> "diagonal_up", row0 |-> WIN_LENGTH - 1, row1 |-> ROWS - 1,
        col0 |-> 0, col1 |-> COLS - WIN_LENGTH, drow |-> -1, dcol |-> 1] >>

\* The four window loops shared by get_winner and heuristic_evaluate, in the
\* order the source runs them: the rows and columns the loop variables range
\* over and the step (drow, dcol) from one cell of a window to the next.
WindowLoops ==
    << [name |-> "horizontal", row0 |-> 0, row1 |-> ROWS - 1,
        col0 |-> 0, col1 |-> COLS - WIN_LENGTH, drow |-> 0, dcol |-> 1],
       [name |-> "vertical", row0 |-> 0, row1 |-> ROWS - WIN_LENGTH,
        col0 |-> 0, col1 |-> COLS - 1, drow |-> 1, dcol |-> 0],
       [name |-> "diagonal_down", row0 |-> 0, row1 |-> ROWS - WIN_LENGTH,
        col0 |-> 0, col1 |-> COLS - WIN_LENGTH, drow |-> 1, dcol |-> 1],
       [name |-> "diagonal_up", row0 |-> WIN_LENGTH - 1, row1 |-> ROWS - 1,
        col0 |-> 0, col1 |-> COLS - WIN_LENGTH, drow |-> -1, dcol |-> 1] >>

\* (mutant) a loop with the columns outside and the rows inside
WindowsOfLoop_ColumnMajor(loop) ==
    LET ncols == loop.col1 - loop.col0 + 1
        nrows == loop.row1 - loop.row0 + 1
    IN  [k \in 1 .. nrows * ncols |->
            LET col == loop.col0 + ((k - 1) \div nrows)
                row == loop.row0 + ((k - 1) % nrows)
            IN  [i \in 1 .. WIN_LENGTH |->
                    <<row + (i - 1) * loop.drow, col + (i - 1) * loop.dcol>>]]

\* the cells <<row, col>> of the windows one loop builds, in the order it
\* builds them (rows outside, columns inside)
WindowsOfLoop(loop) ==
    LET ncols == loop.col1 - loop.col0 + 1
        nrows == loop.row1 - loop.row0 + 1
    IN  [k \in 1 .. nrows * ncols |->
            LET row == loop.row0 + ((k - 1) \div ncols)
                col == loop.col0 + ((k - 1) % ncols)
            IN  [i \in 1 .. WIN_LENGTH |->
                    <<row + (i - 1) * loop.drow, col + (i - 1) * loop.dcol>>]]

HorizontalWindows == WindowsOfLoop(WindowLoops[1])
VerticalWindows == WindowsOfLoop(WindowLoops[2])
DownDiagonalWindows == WindowsOfLoop(WindowLoops[3])
UpDiagonalWindows == WindowsOfLoop(WindowLoops[4])

\* every window, in the order get_winner and heuristic_evaluate meet them
ScanWindows ==
    HorizontalWindows \o VerticalWindows \o DownDiagonalWindows \o UpDiagonalWindows

\* the 4 cell values of a window
WindowAt(board, cells) ==
    << board[cells[1][1]][cells[1][2]], board[cells[2][1]][cells[2][2]],
       board[cells[3][1]][cells[3][2]], board[cells[4][1]][cells[4][2]] >>

\* np.all(window == player)
_check_window(window, player) == \A i \in 1 .. WIN_LENGTH : window[i] = player

\* "for player in [PLAYER_1, PLAYER_2]: if _check_window(window, player)"
WindowWinner(window) ==
    IF _check_window(window, PLAYER_1) THEN PLAYER_1
    ELSE IF _check_window(window, PLAYER_2) THEN PLAYER_2
    ELSE None

\* get_winner returns at the first window, in scan order, that a player owns.
get_winner(board) ==
    LET hits == {k \in 1 .. Len(ScanWindows) :
                    WindowWinner(WindowAt(board, ScanWindows[k])) # None}
    IN  IF hits = {} THEN None
        ELSE LET first == CHOOSE k \in hits : \A j \in hits : k <= j
             IN  WindowWinner(WindowAt(board, ScanWindows[first]))

\* (mutant) only the full board is terminal
is_terminal_FullOnly(board) == Len(get_legal_moves(board)) = 0

is_terminal(board) == get_winner(board) # None \/ Len(get_legal_moves(board)) = 0

utility(board, ai_player) ==
    LET winner == get_winner(board)
    IN  IF winner = ai_player THEN 1
        ELSE IF winner # None THEN -1
        ELSE 0

get_opponent(player) == IF player = PLAYER_2 THEN PLAYER_1 ELSE PLAYER_2

\* --------------------------------------------------------------- minimax.py

count_nonzero(window, v) ==
    (IF window[1] = v THEN 1 ELSE 0) + (IF window[2] = v THEN 1 ELSE 0)
    + (IF window[3] = v THEN 1 ELSE 0) + (IF window[4] = v THEN 1 ELSE 0)

\* (mutant) the opponent's windows weighed like the AI's own: -10 and -5
_score_window_Symmetric(window, ai_player, opponent) ==
    LET ai_count == count_nonzero(window, ai_player)
        opp_count == count_nonzero(window, opponent)
        empty_count == count_nonzero(window, EMPTY)
        own == IF ai_count = 4 THEN 100
               ELSE IF ai_count = 3 /\ empty_count = 1 THEN 10
               ELSE IF ai_count = 2 /\ empty_count = 2 THEN 5
               ELSE 0
        other == IF opp_count = 3 /\ empty_count = 1 THEN 10
                 ELSE IF opp_count = 2 /\ empty_count = 2 THEN 5
                 ELSE 0
    IN  own - other

\* _score_window: the "if / elif / elif" chain on the AI's count adds to the
\* score, the separate "if / elif" chain on the opponent's count subtracts.
_score_window(window, ai_player, opponent) ==
    LET ai_count == count_nonzero(window, ai_player)
        opp_count == count_nonzero(window, opponent)
        empty_count == count_nonzero(window, EMPTY)
        own == IF ai_count = 4 THEN 100
               ELSE IF ai_count = 3 /\ empty_count = 1 THEN 10
               ELSE IF ai_count = 2 /\ empty_count = 2 THEN 5
               ELSE 0
        other == IF opp_count = 3 /\ empty_count = 1 THEN 8
                 ELSE IF opp_count = 2 /\ empty_count = 2 THEN 4
                 ELSE 0
    IN  own - other

\* "score += _score_window(window, ai_player, opponent)" over the windows of
\* one loop
RECURSIVE ScoreWindows(_, _, _, _)
ScoreWindows(board, ai_player, windows, k) ==
    IF k > Len(windows) THEN 0
    ELSE _score_window(WindowAt(board, windows[k]), ai_player, get_opponent(ai_player))
         + ScoreWindows(board, ai_player, windows, k + 1)

heuristic_evaluate(board, ai_player) ==
    LET center_col == COLS \div 2
        center_count == Cardinality({row \in RowIdx : board[row][center_col] = ai_player})
    IN  center_count * 6
        + ScoreWindows(board, ai_player, HorizontalWindows, 1)
        + ScoreWindows(board, ai_player, VerticalWindows, 1)
        + ScoreWindows(board, ai_player, DownDiagonalWindows, 1)
        + ScoreWindows(board, ai_player, UpDiagonalWindows, 1)

\* sorted(moves, key=lambda col: abs(col - center)): a stable sort, so the
\* moves of each distance keep their order.
RECURSIVE SortByDistance(_, _)
SortByDistance(moves, d) ==
    IF d > COLS THEN <<>>
    ELSE SelectSeq(moves, LAMBDA col : Abs(col - COLS \div 2) = d)
         \o SortByDistance(moves, d + 1)

_order_moves(moves) == SortByDistance(moves, 0)

\* (mutant) the depth subtracted from a win and added to a loss
TerminalValue_SlowWin(winner, ai_player, depth) ==
    IF winner = ai_player THEN 1000 - depth
    ELSE IF winner # None THEN -1000 + depth
    ELSE 0

\* the value minimax returns for a terminal board with that winner
TerminalValue(winner, ai_player, depth) ==
    IF winner = ai_player THEN 1000 + depth
    ELSE IF winner # None THEN -1000 - depth
    ELSE 0

\* (mutant) the cutoff test the wrong way round: "if alpha <= beta: break"
Cutoff_Reversed(alpha, beta) == alpha <= beta

\* the cutoff test "if alpha >= beta: break" of both loops
Cutoff(alpha, beta) == alpha >= beta

\* the calls of a trace, each one level further down the call chain
Deeper(trace) == {<<c[1] + 1, c[2]>> : c \in trace}

\* minimax returns its value, the number of calls made (the increments of
\* stats["nodes_expanded"]), whether a make_move inside it raised, and the
\* trace of the calls made: <<k, d>> for a call that is the k-th of a chain of
\* nested calls starting with this one and was given the depth argument d.
RECURSIVE minimax(_, _, _, _, _, _)
RECURSIVE MaxLoop(_, _, _, _, _, _, _, _, _, _)
RECURSIVE MinLoop(_, _, _, _, _, _, _, _, _, _)

MaxLoop(board, legal_moves, i, depth, ai_player, alpha, beta, max_eval, nodes, trace) ==
    IF i > Len(legal_moves)
    THEN [value |-> max_eval, nodes |-> nodes, raised |-> FALSE,
          trace |-> trace]
    ELSE LET mv == make_move(board, legal_moves[i], ai_player)
         IN  IF mv.raised
             THEN [value |-> max_eval, nodes |-> nodes, raised |-> TRUE,
                   trace |-> trace]
             ELSE LET r == minimax(mv.new_board, depth - 1, FALSE, ai_player, alpha, beta)
                      new_max == Max(max_eval, r.value)
                      new_alpha == Max(alpha, r.value)
                  IN  IF r.raised
                      THEN [value |-> max_eval, nodes |-> nodes + r.nodes, raised |-> TRUE,
                            trace |-> trace \cup Deeper(r.trace)]
                      ELSE IF Cutoff(new_alpha, beta)
                      THEN [value |-> new_max, nodes |-> nodes + r.nodes, raised |-> FALSE,
                            trace |-> trace \cup Deeper(r.trace)]
                      ELSE MaxLoop(board, legal_moves, i + 1, depth, ai_player,
                                   new_alpha, beta, new_max, nodes + r.nodes,
                                   trace \cup Deeper(r.trace))

MinLoop(board, legal_moves, i, depth, ai_player, alpha, beta, min_eval, nodes, trace) ==
    IF i > Len(legal_moves)
    THEN [value |-> min_eval, nodes |-> nodes, raised |-> FALSE,
          trace |-> trace]
    ELSE LET mv == make_move(board, legal_moves[i], get_opponent(ai_player))
         IN  IF mv.raised
             THEN [value |-> min_eval, nodes |-> nodes, raised |-> TRUE,
                   trace |-> trace]
             ELSE LET r == minimax(mv.new_board, depth - 1, TRUE, ai_player, alpha, beta)
                      new_min == Min(min_eval, r.value)
                      new_beta == Min(beta, r.value)
                  IN  IF r.raised
                      THEN [value |-> min_eval, nodes |-> nodes + r.nodes, raised |-> TRUE,
                            trace |-> trace \cup Deeper(r.trace)]
                      ELSE IF Cutoff(alpha, new_beta)
                      THEN [value |-> new_min, nodes |-> nodes + r.nodes, raised |-> FALSE,
                            trace |-> trace \cup Deeper(r.trace)]
                      ELSE MinLoop(board, legal_moves, i + 1, depth, ai_player,
                                   alpha, new_beta, new_min, nodes + r.nodes,
                                   trace \cup Deeper(r.trace))

\* (mutant) the depth horizon tested before the terminal test
minimax_HorizonFirst(board, depth, maximizing, ai_player, alpha, beta) ==
    IF depth = 0
    THEN [value |-> heuristic_evaluate(board, ai_player), nodes |-> 1, raised |-> FALSE,
          trace |-> {<<1, depth>>}]
    ELSE IF is_terminal(board)
    THEN [value |-> TerminalValue(get_winner(board), ai_player, depth),
          nodes |-> 1, raised |-> FALSE, trace |-> {<<1, depth>>}]
    ELSE LET legal_moves == _order_moves(get_legal_moves(board))
         IN  IF maximizing
             THEN MaxLoop(board, legal_moves, 1, depth, ai_player, alpha, beta, -Inf, 1,
                          {<<1, depth>>})
             ELSE MinLoop(board, legal_moves, 1, depth, ai_player, alpha, beta, Inf, 1,
                          {<<1, depth>>})

\* minimax: the terminal test, then the depth horizon, then the two loops
minimax(board, depth, maximizing, ai_player, alpha, beta) ==
    IF is_terminal(board)
    THEN [value |-> TerminalValue(get_winner(board), ai_player, depth),
          nodes |-> 1, raised |-> FALSE, trace |-> {<<1, depth>>}]
    ELSE IF depth = 0
    THEN [value |-> heuristic_evaluate(board, ai_player), nodes |-> 1, raised |-> FALSE,
          trace |-> {<<1, depth>>}]
    ELSE LET legal_moves == _order_moves(get_legal_moves(board))
         IN  IF maximizing
             THEN MaxLoop(board, legal_moves, 1, depth, ai_player, alpha, beta, -Inf, 1,
                          {<<1, depth>>})
             ELSE MinLoop(board, legal_moves, 1, depth, ai_player, alpha, beta, Inf, 1,
                          {<<1, depth>>})

\* (mutant) "if score >= best_score": a later move of equal value wins
BetterScore_OrEqual(score, best_score) == score >= best_score

\* "if score > best_score" of get_best_move
BetterScore(score, best_score) == score > best_score

\* the root loop of get_best_move
RECURSIVE RootLoop(_, _, _, _, _, _, _, _, _)
\* (mutant) the children searched with the whole of max_depth
RootLoop_FullDepth(board, legal_moves, i, max_depth, ai_player, best_score, best_col, nodes, trace) ==
    IF i > Len(legal_moves)
    THEN [best_col |-> best_col, best_score |-> best_score,
          nodes_expanded |-> nodes, depth |-> max_depth, raised |-> FALSE,
          trace |-> trace]
    ELSE LET mv == make_move(board, legal_moves[i], ai_player)
         IN  IF mv.raised
             THEN [best_col |-> None, best_score |-> best_score,
                   nodes_expanded |-> nodes, depth |-> max_depth, raised |-> TRUE,
                   trace |-> trace]
             ELSE LET r == minimax(mv.new_board, max_depth, FALSE, ai_player, -Inf, Inf)
                      better == BetterScore(r.value, best_score)
                  IN  IF r.raised
                      THEN [best_col |-> None, best_score |-> best_score,
                            nodes_expanded |-> nodes + r.nodes, depth |-> max_depth,
                            raised |-> TRUE, trace |-> trace \cup r.trace]
                      ELSE RootLoop(board, legal_moves, i + 1, max_depth, ai_player,
                                    IF better THEN r.value ELSE best_score,
                                    IF better THEN legal_moves[i] ELSE best_col,
                                    nodes + r.nodes, trace \cup r.trace)

\* "for col in legal_moves" of get_best_move, each child searched to max_depth - 1
RootLoop(board, legal_moves, i, max_depth, ai_player, best_score, best_col, nodes, trace) ==
    IF i > Len(legal_moves)
    THEN [best_col |-> best_col, best_score |-> best_score,
          nodes_expanded |-> nodes, depth |-> max_depth, raised |-> FALSE,
          trace |-> trace]
    ELSE LET mv == make_move(board, legal_moves[i], ai_player)
         IN  IF mv.raised
             THEN [best_col |-> None, best_score |-> best_score,
                   nodes_expanded |-> nodes, depth |-> max_depth, raised |-> TRUE,
                   trace |-> trace]
             ELSE LET r == minimax(mv.new_board, max_depth - 1, FALSE, ai_player, -Inf, Inf)
                      better == BetterScore(r.value, best_score)
                  IN  IF r.raised
                      THEN [best_col |-> None, best_score |-> best_score,
                            nodes_expanded |-> nodes + r.nodes, depth |-> max_depth,
                            raised |-> TRUE, trace |-> trace \cup r.trace]
                      ELSE RootLoop(board, legal_moves, i + 1, max_depth, ai_player,
                                    IF better THEN r.value ELSE best_score,
                                    IF better THEN legal_moves[i] ELSE best_col,
                                    nodes + r.nodes, trace \cup r.trace)

\* get_best_move, called with at least one legal move (legal_moves[0] exists).
get_best_move(board, ai_player, max_depth) ==
    LET legal_moves == _order_moves(get_legal_moves(board))
    IN  RootLoop(board, legal_moves, 1, max_depth, ai_player, -Inf, legal_moves[1], 0, {})

\* ------------------------------------------------------------ state machine

\* moves played on top of a start position, and calls of make_move tried
MaxMoves == 4
\* the search depths tried: max_depth in 1 .. MaxDepth
MaxDepth == 3
\* pieces dropped on the search position before a search is run
MaxPlays == 2
\* moves still to play in the end positions of a drawn game
MaxLeft == 3
\* the last plies of a game of play_game in which the human chooses freely
FreePlies == 8

VARIABLES
    board,      \* the caller's board array
    call,       \* the last call made and what it returned
    n           \* the number of calls of make_move so far

vars == <<board, call, n>>

NoCall == [op |-> "none"]

\* "board = make_move(board, col, player)" repeated over a list of columns,
\* the players alternating as in play_game (main.py); a ValueError ends it.
RECURSIVE PlayMoves(_, _, _)
PlayMoves(b, cols, player) ==
    IF cols = <<>> THEN b
    ELSE LET r == make_move(b, Head(cols), player)
         IN  IF r.raised THEN b
             ELSE PlayMoves(r.new_board, Tail(cols), get_opponent(player))

\* A game in which columns 0 and 6 have been filled.
EdgeGame == <<0, 0, 0, 0, 0, 0, 6, 6, 6, 6, 6, 6>>

\* A game in which columns 0, 1, 5 and 6 have been filled, no one has won and
\* PLAYER_1 is to move.
NarrowGame == <<0, 0, 0, 0, 0, 0, 1, 1, 1, 1, 1, 1,
                5, 5, 5, 5, 5, 5, 6, 6, 6, 6, 6, 6>>

StartBoards ==
    {create_board, PlayMoves(create_board, EdgeGame, PLAYER_1)}

\* the columns a caller may pass: every column, and one past each end
TryCols == -1 .. COLS

\* ---- Spec: the board under calls of make_move

Init ==
    /\ board \in StartBoards
    /\ call = NoCall
    /\ n = 0

\* A caller runs "board = make_move(board, col, player)"; when ValueError is
\* raised the assignment does not happen.
MakeMove(col, player) ==
    /\ n < MaxMoves
    /\ LET r == make_move(board, col, player)
       IN  /\ call' = [op |-> "make_move", col |-> col, player |-> player,
                       arg_before |-> board, arg_after |-> r.board,
                       raised |-> r.raised, new_board |-> r.new_board]
           /\ board' = IF r.raised THEN r.board ELSE r.new_board
    /\ n' = n + 1

Next == \E col \in TryCols, player \in Players : MakeMove(col, player)

Spec == Init /\ [][Next]_vars

\* ---------------------------------------------------------------- claims

Cells == RowIdx \X ColIdx

\* C2 (gravity invariant): after any sequence of successful make_move calls
\* from the empty board, by any players in any columns, no Empty cell lies
\* below an occupied cell of the same column.
Gravity(b) ==
    \A col \in ColIdx : \A row \in RowIdx :
        b[row][col] # EMPTY => \A below \in row + 1 .. ROWS - 1 : b[below][col] # EMPTY

C2_GravityInvariant == Gravity(board)

\* a piece has been dropped on top of another one
C2_Witness ==
    /\ call.op = "make_move" /\ ~call.raised
    /\ \E col \in ColIdx : \E row \in 0 .. ROWS - 2 :
          /\ board[row][col] # EMPTY
          /\ call.arg_before[row][col] = EMPTY
          /\ board[row + 1][col] # EMPTY

\* the lowest Empty cell of a column: the greatest row holding EMPTY
LowestEmptyCell(b, col) ==
    CHOOSE row \in RowIdx :
        /\ b[row][col] = EMPTY
        /\ \A r \in RowIdx : b[r][col] = EMPTY => r <= row

Changed(b1, b2) == {cell \in Cells : b1[cell[1]][cell[2]] # b2[cell[1]][cell[2]]}

\* C3 (frame of make_move): a successful make_move returns a board that
\* differs from its input in exactly one cell, the lowest Empty cell of the
\* column, which holds the player; the input array is not modified.
C3_MakeMoveFrame ==
    (call.op = "make_move" /\ ~call.raised) =>
        /\ Changed(call.arg_before, call.new_board)
              = {<<LowestEmptyCell(call.arg_before, call.col), call.col>>}
        /\ call.new_board[LowestEmptyCell(call.arg_before, call.col)][call.col]
              = call.player
        /\ call.arg_after = call.arg_before

\* a successful move into a column that already holds pieces
C3_Witness ==
    /\ call.op = "make_move" /\ ~call.raised
    /\ call.arg_before[ROWS - 1][call.col] # EMPTY
    /\ call.new_board # call.arg_before

\* C4 (invalid move): make_move raises ValueError exactly when col is outside
\* [0, COLS) or the top cell of column col is occupied; then no board is
\* returned, no piece is placed anywhere and the input board is unchanged.
C4_InvalidMove ==
    call.op = "make_move" =>
        /\ call.raised <=> \/ call.col \notin ColIdx
                           \/ call.arg_before[0][call.col] # EMPTY
        /\ call.raised =>
              /\ call.new_board = None
              /\ call.arg_after = call.arg_before
              /\ board = call.arg_before

\* ValueError has been raised for a full column
C4_Witness ==
    /\ call.op = "make_move" /\ call.raised
    /\ call.col \in ColIdx
    /\ call.arg_before[0][call.col] # EMPTY

\* ValueError has been raised for a column out of bounds
C4_WitnessBounds ==
    /\ call.op = "make_move" /\ call.raised
    /\ call.col \notin ColIdx

\* ---- SpecWinner: get_winner on arbitrary grids

Directions == {<<0, 1>>, <<1, 0>>, <<1, 1>>, <<-1, 1>>}

\* the 4 cells from (row, col) in direction dir
LineFrom(row, col, dir) ==
    {<<row + i * dir[1], col + i * dir[2]>> : i \in 0 .. WIN_LENGTH - 1}

\* every run of 4 consecutive cells of the grid, by its first cell and direction
Anchors ==
    {a \in RowIdx \X ColIdx \X Directions : LineFrom(a[1], a[2], a[3]) \subseteq Cells}

LineOf(a) == LineFrom(a[1], a[2], a[3])

Paint(grid, line, v) ==
    [row \in RowIdx |-> [col \in ColIdx |->
        IF <<row, col>> \in line THEN v ELSE grid[row][col]]]

\* Grids a test may hand to get_winner: a line of one player painted on the
\* empty grid, and a second line painted over it for either player or erased.
\* Most of them cannot be reached by dropping pieces.
TestGrids ==
    {Paint(Paint(create_board, LineOf(x[1]), x[2]), LineOf(x[3]), x[4]) :
        x \in Anchors \X Players \X Anchors \X {EMPTY, PLAYER_1, PLAYER_2}}

InitWinner ==
    /\ board \in TestGrids
    /\ call = NoCall
    /\ n = 0

GetWinner ==
    /\ call.op = "none"
    /\ call' = [op |-> "get_winner", winner |-> get_winner(board)]
    /\ UNCHANGED <<board, n>>

NextWinner == GetWinner

SpecWinner == InitWinner /\ [][NextWinner]_vars

Owns(b, p, a) == \A cell \in LineOf(a) : b[cell[1]][cell[2]] = p

Owners(b) == {p \in Players : \E a \in Anchors : Owns(b, p, a)}

\* C5 (win detection): on every grid, reachable by play or not, get_winner
\* returns a player who owns some run of 4 consecutive cells in a row, a
\* column or a diagonal, and returns None exactly when no player owns one.
C5_WinnerIffLine ==
    call.op = "get_winner" =>
        /\ call.winner = None <=> Owners(board) = {}
        /\ call.winner # None => call.winner \in Owners(board)

\* a win on an ascending diagonal of a grid no play can reach
C5_Witness ==
    /\ call.op = "get_winner" /\ call.winner = PLAYER_2
    /\ ~Gravity(board)
    /\ \E a \in Anchors : a[3] = <<-1, 1>> /\ Owns(board, PLAYER_2, a)

\* three in a line and no winner
C5_WitnessNone ==
    /\ call.op = "get_winner" /\ call.winner = None
    /\ \E a \in Anchors : \E cell \in LineOf(a) :
          /\ board[cell[1]][cell[2]] = EMPTY
          /\ \A other \in LineOf(a) \ {cell} : board[other[1]][other[2]] = PLAYER_1

\* the place of a run in the scan: horizontal runs, then vertical ones, then
\* the descending diagonals, then the ascending ones
Family(a) ==
    IF a[3] = <<0, 1>> THEN 1
    ELSE IF a[3] = <<1, 0>> THEN 2
    ELSE IF a[3] = <<1, 1>> THEN 3
    ELSE 4

\* every family row by row, columns within a row
RowMajorKey(a) == <<Family(a), a[1], a[2]>>

\* the vertical runs column by column, rows within a column
ColumnMajorVerticalKey(a) ==
    IF Family(a) = 2 THEN <<2, a[2], a[1]>> ELSE <<Family(a), a[1], a[2]>>

KeyLess(k1, k2) ==
    \/ k1[1] < k2[1]
    \/ k1[1] = k2[1] /\ k1[2] < k2[2]
    \/ k1[1] = k2[1] /\ k1[2] = k2[2] /\ k1[3] < k2[3]

Owned(b) == {a \in Anchors : \E p \in Players : Owns(b, p, a)}

\* the owner of the owned run that comes first under Key
FirstOwner(b, Key(_)) ==
    LET first == CHOOSE a \in Owned(b) :
                     \A other \in Owned(b) \ {a} : KeyLess(Key(a), Key(other))
    IN  CHOOSE p \in Players : Owns(b, p, first)

BothOwn(b) == Owners(b) = Players

\* C6 as stated: with a run owned by each player, get_winner returns the
\* owner of the first owned run, the vertical runs being scanned column by
\* column.
C6_ColumnMajorVertical ==
    (call.op = "get_winner" /\ BothOwn(board)) =>
        call.winner = FirstOwner(board, ColumnMajorVerticalKey)

\* C6 (amended): with a run owned by each player, get_winner returns the
\* owner of the first owned run in this order: the horizontal runs, then the
\* vertical runs, then the descending and the ascending diagonals, each family
\* row by row (by the row of the loop's start cell) and left to right within
\* a row.
C6_ScanOrder ==
    (call.op = "get_winner" /\ BothOwn(board)) =>
        call.winner = FirstOwner(board, RowMajorKey)

\* each player owns a vertical run and the two orders name different winners
C6_Witness ==
    /\ call.op = "get_winner"
    /\ BothOwn(board)
    /\ \A a \in Owned(board) : Family(a) = 2
    /\ FirstOwner(board, ColumnMajorVerticalKey) # FirstOwner(board, RowMajorKey)

\* ---- SpecSearch: get_best_move on positions of a game

\* the position after NarrowGame: columns 2, 3 and 4 are open
SearchBoard == PlayMoves(create_board, NarrowGame, PLAYER_1)

InitSearch ==
    /\ board = SearchBoard
    /\ call = NoCall
    /\ n = 0

\* a piece of either player is dropped in a legal column
Play(col, player) ==
    /\ call.op = "none"
    /\ n < MaxPlays
    /\ LET r == make_move(board, col, player)
       IN  /\ ~r.raised
           /\ board' = r.new_board
    /\ n' = n + 1
    /\ call' = NoCall

\* get_best_move(board, ai_player, max_depth) on a board with a legal move
Search(ai_player, max_depth) ==
    /\ call.op = "none"
    /\ Len(get_legal_moves(board)) > 0
    /\ \E r \in {get_best_move(board, ai_player, max_depth)} :
           call' = [op |-> "get_best_move", ai_player |-> ai_player,
                    max_depth |-> max_depth, raised |-> r.raised,
                    best_col |-> r.best_col, best_score |-> r.best_score,
                    nodes_expanded |-> r.nodes_expanded, depth |-> r.depth,
                    trace |-> r.trace]
    /\ UNCHANGED <<board, n>>

NextSearch ==
    \/ \E col \in ColIdx, player \in Players : Play(col, player)
    \/ \E ai_player \in Players, max_depth \in 1 .. MaxDepth : Search(ai_player, max_depth)

SpecSearch == InitSearch /\ [][NextSearch]_vars

Searched == call.op = "get_best_move"

\* The full minimax search, without alpha and beta: the value of a board and
\* the number of boards visited.
RECURSIVE FullMinimax(_, _, _, _)
RECURSIVE FullChildren(_, _, _, _, _, _)

FullChildren(b, moves, i, depth, maximizing, ai_player) ==
    IF i > Len(moves) THEN [value |-> IF maximizing THEN -Inf ELSE Inf, nodes |-> 0]
    ELSE LET mover == IF maximizing THEN ai_player ELSE get_opponent(ai_player)
             child == FullMinimax(make_move(b, moves[i], mover).new_board,
                                  depth - 1, ~maximizing, ai_player)
             rest == FullChildren(b, moves, i + 1, depth, maximizing, ai_player)
         IN  [value |-> IF maximizing THEN Max(child.value, rest.value)
                        ELSE Min(child.value, rest.value),
              nodes |-> child.nodes + rest.nodes]

FullMinimax(b, depth, maximizing, ai_player) ==
    IF is_terminal(b)
    THEN [value |-> IF get_winner(b) = ai_player THEN 1000 + depth
                    ELSE IF get_winner(b) # None THEN -1000 - depth
                    ELSE 0,
          nodes |-> 1]
    ELSE IF depth = 0
    THEN [value |-> heuristic_evaluate(b, ai_player), nodes |-> 1]
    ELSE LET r == FullChildren(b, get_legal_moves(b), 1, depth, maximizing, ai_player)
         IN  [value |-> r.value, nodes |-> 1 + r.nodes]

\* the root selection rule on the values of the full search: the moves center
\* first, a move replacing the best one only when its value is strictly greater
RECURSIVE FullRoot(_, _, _, _, _, _, _, _)
FullRoot(b, moves, i, max_depth, ai_player, best_score, best_col, nodes) ==
    IF i > Len(moves) THEN [best_col |-> best_col, nodes |-> nodes]
    ELSE LET r == FullMinimax(make_move(b, moves[i], ai_player).new_board,
                              max_depth - 1, FALSE, ai_player)
         IN  IF r.value > best_score
             THEN FullRoot(b, moves, i + 1, max_depth, ai_player, r.value, moves[i],
                           nodes + r.nodes)
             ELSE FullRoot(b, moves, i + 1, max_depth, ai_player, best_score, best_col,
                           nodes + r.nodes)

FullBestMove(b, ai_player, max_depth) ==
    LET moves == _order_moves(get_legal_moves(b))
    IN  FullRoot(b, moves, 1, max_depth, ai_player, -Inf, moves[1], 0)

\* C1 (pruning is sound): on a board with a legal move and for max_depth >= 1,
\* get_best_move returns the column the full minimax search of the same depth
\* returns under the same root selection rule, and expands no more nodes.
C1_PrunedEqualsFull ==
    Searched =>
        LET full == FullBestMove(board, call.ai_player, call.max_depth)
        IN  /\ call.best_col = full.best_col
            /\ call.nodes_expanded <= full.nodes

\* a search in which branches were cut off
C1_Witness ==
    /\ Searched
    /\ call.nodes_expanded
          < FullBestMove(board, call.ai_player, call.max_depth).nodes

\* a cell a piece dropped in its column would land in
Playable(b, cell) ==
    /\ b[cell[1]][cell[2]] = EMPTY
    /\ cell[1] = ROWS - 1 \/ b[cell[1] + 1][cell[2]] # EMPTY

\* the columns in which player p completes 4 in a row at once: three of p's
\* pieces in a run of 4 whose fourth cell is empty and playable
WinningCols(b, p) ==
    {cell[2] : cell \in
        {c \in Cells : /\ Playable(b, c)
                       /\ \E a \in Anchors :
                             /\ c \in LineOf(a)
                             /\ \A other \in LineOf(a) \ {c} :
                                   b[other[1]][other[2]] = p}}

NonTerminal(b) == Owners(b) = {} /\ \E col \in ColIdx : b[0][col] = EMPTY

\* C7 (immediate win): on a non-terminal board where the AI has three in a
\* row and the connecting fourth cell is empty and playable, get_best_move
\* with any max_depth >= 1 returns a column whose play by the AI makes
\* get_winner return the AI.
C7_TakesWin ==
    (Searched /\ NonTerminal(board) /\ WinningCols(board, call.ai_player) # {}) =>
        /\ call.best_col \in WinningCols(board, call.ai_player)
        /\ get_winner(make_move(board, call.best_col, call.ai_player).new_board)
              = call.ai_player

\* the AI had a winning column that is not the first one tried, and took it
C7_Witness ==
    /\ Searched /\ NonTerminal(board)
    /\ WinningCols(board, call.ai_player) # {}
    /\ COLS \div 2 \notin WinningCols(board, call.ai_player)
    /\ board[0][COLS \div 2] = EMPTY
    /\ call.best_col \in WinningCols(board, call.ai_player)

\* the board after player p drops a piece in column col
After(b, col, p) == make_move(b, col, p).new_board

ThreatCase ==
    /\ Searched /\ NonTerminal(board)
    /\ call.max_depth >= 2
    /\ WinningCols(board, get_opponent(call.ai_player)) # {}
    /\ WinningCols(board, call.ai_player) = {}

\* C8 as stated: when the opponent has three in a row with an open fourth
\* cell and the AI has no immediate win, get_best_move with max_depth >= 2
\* returns the column of that open cell.
C8_AlwaysBlocks ==
    ThreatCase => call.best_col \in WinningCols(board, get_opponent(call.ai_player))

\* C8 (amended): when the opponent can complete 4 in a row by playing column
\* c, the AI has no immediate win, and the AI's piece in c leaves the opponent
\* no column that wins at once, get_best_move with max_depth >= 2 returns c.
C8_BlocksSingleThreat ==
    ThreatCase =>
        \A c \in WinningCols(board, get_opponent(call.ai_player)) :
            WinningCols(After(board, c, call.ai_player),
                        get_opponent(call.ai_player)) = {}
                => call.best_col = c

\* the threat is away from the center column, and it was blocked
C8_Witness ==
    /\ ThreatCase
    /\ \E c \in WinningCols(board, get_opponent(call.ai_player)) :
          /\ c # COLS \div 2
          /\ board[0][COLS \div 2] = EMPTY
          /\ WinningCols(After(board, c, call.ai_player),
                         get_opponent(call.ai_player)) = {}
          /\ call.best_col = c

LegalCols(b) == {col \in ColIdx : b[0][col] = EMPTY}

\* the value the search gives the root move col
RootValue(b, col, ai_player, max_depth) ==
    minimax(After(b, col, ai_player), max_depth - 1, FALSE, ai_player, -Inf, Inf).value

\* col1 comes before col2 in the center-first ordering
Earlier(col1, col2) ==
    \/ Abs(col1 - COLS \div 2) < Abs(col2 - COLS \div 2)
    \/ Abs(col1 - COLS \div 2) = Abs(col2 - COLS \div 2) /\ col1 < col2

\* C9 (root selection): get_best_move returns a legal column whose root value
\* is the maximum over the legal root moves, and among the moves of that
\* value the earliest in the center-first ordering.
C9_BestIsFirstMaximum ==
    Searched =>
        /\ call.best_col \in LegalCols(board)
        /\ LET best == RootValue(board, call.best_col, call.ai_player, call.max_depth)
           IN  \A col \in LegalCols(board) \ {call.best_col} :
                   LET v == RootValue(board, col, call.ai_player, call.max_depth)
                   IN  /\ v <= best
                       /\ v = best => ~Earlier(col, call.best_col)

\* two root moves share the maximum
C9_Witness ==
    /\ Searched
    /\ \E col \in LegalCols(board) \ {call.best_col} :
          RootValue(board, col, call.ai_player, call.max_depth)
             = RootValue(board, call.best_col, call.ai_player, call.max_depth)

\* C10 (the search never raises): during get_best_move on a board with a
\* legal move no make_move call raises ValueError, and the call returns a
\* column and its stats.
C10_SearchNeverRaises ==
    Searched =>
        /\ ~call.raised
        /\ call.best_col \in ColIdx
        /\ call.nodes_expanded >= 1
        /\ call.depth = call.max_depth

\* a search of the greatest depth on a board with full columns returned
C10_Witness ==
    /\ Searched /\ ~call.raised
    /\ call.max_depth = MaxDepth
    /\ \E col \in ColIdx : board[0][col] # EMPTY
    /\ call.nodes_expanded > Cardinality(LegalCols(board))

\* ---- SpecMinimax: minimax and get_best_move at the end of a game

\* A game of play_game that ends in a draw on the full board.
DrawGame == <<3, 4, 3, 3, 3, 2, 2, 4, 4, 3, 3, 4, 4, 2,
              2, 2, 2, 1, 4, 6, 6, 6, 5, 5, 6, 5, 5, 6,
              6, 0, 1, 0, 1, 1, 0, 0, 0, 0, 1, 1, 5, 5>>

\* the positions of DrawGame with at most MaxLeft moves still to play
EndBoards ==
    {PlayMoves(create_board, SubSeq(DrawGame, 1, Len(DrawGame) - k), PLAYER_1) :
        k \in 0 .. MaxLeft}

\* the alpha and beta a caller may pass, a closed or inverted window included
Bounds == {-Inf, 0, Inf}

InitMinimax ==
    /\ board \in EndBoards
    /\ call = NoCall
    /\ n = 0

\* minimax(board, depth, maximizing, ai_player, alpha, beta, stats) on any board
CallMinimax(depth, maximizing, ai_player, alpha, beta) ==
    /\ call.op = "none"
    /\ \E r \in {minimax(board, depth, maximizing, ai_player, alpha, beta)} :
           call' = [op |-> "minimax", depth |-> depth, maximizing |-> maximizing,
                    ai_player |-> ai_player, alpha |-> alpha, beta |-> beta,
                    value |-> r.value, nodes |-> r.nodes, raised |-> r.raised,
                    trace |-> r.trace]
    /\ UNCHANGED <<board, n>>

NextMinimax ==
    \/ \E col \in ColIdx, player \in Players : Play(col, player)
    \/ \E ai_player \in Players, max_depth \in 1 .. MaxDepth : Search(ai_player, max_depth)
    \/ \E depth \in 0 .. MaxDepth, maximizing \in BOOLEAN, ai_player \in Players,
          alpha \in Bounds, beta \in Bounds :
              CallMinimax(depth, maximizing, ai_player, alpha, beta)

SpecMinimax == InitMinimax /\ [][NextMinimax]_vars

Full(b) == \A cell \in Cells : b[cell[1]][cell[2]] # EMPTY

\* a board on which the game is over: a run of 4 is owned or no cell is Empty
GameOver(b) == Owners(b) # {} \/ Full(b)

\* the ranked value of a finished board for ai_player with depth plies left
Ranked(b, ai_player, depth) ==
    IF Owners(b) = {ai_player} THEN 1000 + depth
    ELSE IF Owners(b) = {get_opponent(ai_player)} THEN -1000 - depth
    ELSE IF Owners(b) = {} THEN 0
    ELSE TerminalValue(get_winner(b), ai_player, depth)

\* C11 (terminal values): minimax called on a terminal board returns, for
\* either value of maximizing, any alpha and beta and any depth, depth 0
\* included, 1000 + depth when ai_player has won, -1000 - depth when the
\* opponent has won and 0 on a full board without a winner; it expands that
\* one node only.  So with more depth left a win is worth strictly more and a
\* loss strictly less.
C11_TerminalRanked ==
    (call.op = "minimax" /\ GameOver(board)) =>
        /\ call.value = Ranked(board, call.ai_player, call.depth)
        /\ call.nodes = 1
        /\ \A shallower \in 0 .. call.depth - 1 :
              LET v == minimax(board, shallower, call.maximizing, call.ai_player,
                               call.alpha, call.beta).value
              IN  /\ Owners(board) = {call.ai_player} => call.value > v
                  /\ Owners(board) = {get_opponent(call.ai_player)} => call.value < v
                  /\ Owners(board) = {} => call.value = v

\* at depth 0 a lost board is valued -1000 although its heuristic differs
C11_Witness ==
    /\ call.op = "minimax" /\ call.depth = 0
    /\ Owners(board) = {get_opponent(call.ai_player)}
    /\ call.value = -1000
    /\ heuristic_evaluate(board, call.ai_player) # call.value

\* the drawn full board is valued 0 although its heuristic is not 0
C11_WitnessDraw ==
    /\ call.op = "minimax" /\ call.depth = 0
    /\ Full(board) /\ Owners(board) = {}
    /\ call.value = 0
    /\ heuristic_evaluate(board, call.ai_player) # 0

\* a won board is valued 1000 + depth under an inverted window
C11_WitnessWin ==
    /\ call.op = "minimax" /\ call.depth = MaxDepth
    /\ Owners(board) = {call.ai_player}
    /\ call.alpha > call.beta
    /\ call.value = 1000 + MaxDepth

EmptyCells(b) == {cell \in Cells : b[cell[1]][cell[2]] = EMPTY}

\* the longest chain of nested calls of a trace
Deepest(trace) == CHOOSE k \in {c[1] : c \in trace} : \A c \in trace : c[1] <= k

\* C12 (bounded recursion): get_best_move with max_depth >= 1 returns, and
\* every call of minimax it made, the k-th of its chain of nested calls, was
\* given the depth max_depth - k, which lies in [0, max_depth - 1]; no chain
\* is longer than max_depth nor than the number of Empty cells of the root
\* board.  Under a direct call of minimax with depth d >= 0 the depth
\* argument likewise drops by exactly 1 per nested call and stays >= 0.
C12_DepthBounded ==
    /\ Searched =>
          /\ call.trace # {}
          /\ call.nodes_expanded >= Cardinality(call.trace)
          /\ \A c \in call.trace :
                /\ c[2] = call.max_depth - c[1]
                /\ c[2] \in 0 .. call.max_depth - 1
                /\ c[1] \in 1 .. call.max_depth
                /\ c[1] <= Cardinality(EmptyCells(board))
    /\ call.op = "minimax" =>
          /\ <<1, call.depth>> \in call.trace
          /\ \A c \in call.trace :
                /\ c[2] = call.depth - (c[1] - 1)
                /\ c[2] >= 0
                /\ c[1] - 1 <= Cardinality(EmptyCells(board))

\* a search of depth MaxDepth whose chains the two Empty cells cut short
C12_Witness ==
    /\ Searched /\ ~call.raised
    /\ call.max_depth = MaxDepth
    /\ Cardinality(EmptyCells(board)) = 2
    /\ Deepest(call.trace) = 2
    /\ call.nodes_expanded > 2

\* a search whose chains reach the depth horizon: the last call has depth 0
C12_WitnessHorizon ==
    /\ Searched /\ ~call.raised
    /\ call.max_depth = MaxDepth
    /\ <<MaxDepth, 0>> \in call.trace

\* ---- SpecHeuristic: _score_window and heuristic_evaluate

\* every content of a window of 4 cells
Windows == [1 .. WIN_LENGTH -> {EMPTY, PLAYER_1, PLAYER_2}]

InitHeuristic ==
    /\ board \in {SearchBoard} \cup EndBoards
    /\ call = NoCall
    /\ n = 0

\* _score_window(window, ai_player, opponent), called as heuristic_evaluate
\* calls it: opponent is get_opponent(ai_player)
ScoreWindow(window, ai_player) ==
    /\ call.op = "none"
    /\ call' = [op |-> "_score_window", window |-> window, ai_player |-> ai_player,
                opponent |-> get_opponent(ai_player),
                score |-> _score_window(window, ai_player, get_opponent(ai_player))]
    /\ UNCHANGED <<board, n>>

\* heuristic_evaluate(board, ai_player)
Evaluate(ai_player) ==
    /\ call.op = "none"
    /\ call' = [op |-> "heuristic_evaluate", ai_player |-> ai_player,
                score |-> heuristic_evaluate(board, ai_player)]
    /\ UNCHANGED <<board, n>>

NextHeuristic ==
    \/ \E col \in ColIdx, player \in Players : Play(col, player)
    \/ \E window \in Windows, ai_player \in Players : ScoreWindow(window, ai_player)
    \/ \E ai_player \in Players : Evaluate(ai_player)

SpecHeuristic == InitHeuristic /\ [][NextHeuristic]_vars

\* the rules of the score table that apply to a window holding ai pieces of
\* the AI, opp of the opponent and empty Empty cells, each with its value
Rules(ai, opp, empty) ==
    {r \in {<<"win", 100, ai = 4>>,
            <<"three", 10, ai = 3 /\ empty = 1>>,
            <<"two", 5, ai = 2 /\ empty = 2>>,
            <<"block three", -8, opp = 3 /\ empty = 1>>,
            <<"block two", -4, opp = 2 /\ empty = 2>>} : r[3]}

\* the table value: that of the one rule applying, 0 when none applies
Table(ai, opp, empty) ==
    IF Rules(ai, opp, empty) = {} THEN 0
    ELSE (CHOOSE r \in Rules(ai, opp, empty) : TRUE)[2]

\* how many of the places of a window hold v
Holding(window, v) == Cardinality({i \in DOMAIN window : window[i] = v})

\* the table value of the run of 4 cells a, scored for player p
RunScore(b, p, a) ==
    LET held(v) == Cardinality({cell \in LineOf(a) : b[cell[1]][cell[2]] = v})
    IN  Table(held(p), held(get_opponent(p)), held(EMPTY))

\* the sum of the table values over all runs of 4 cells, value by value
RunsTotal(b, p) ==
    LET runs(v) == Cardinality({a \in Anchors : RunScore(b, p, a) = v})
    IN  100 * runs(100) + 10 * runs(10) + 5 * runs(5) - 8 * runs(-8) - 4 * runs(-4)

\* C13 (heuristic): _score_window returns the table value of the window's
\* counts (+100 for 4 of the AI, +10 for 3 and an Empty, +5 for 2 and 2 Empty,
\* -8 for 3 of the opponent and an Empty, -4 for 2 and 2 Empty, else 0), at
\* most one rule applying, so a window holding both players scores 0; and
\* heuristic_evaluate(board, p) is 6 times the number of p's pieces in column
\* COLS div 2 plus the sum of the table values over every run of 4 cells in a
\* row, a column or a diagonal.
C13_HeuristicTable ==
    /\ call.op = "_score_window" =>
          LET ai == Holding(call.window, call.ai_player)
              opp == Holding(call.window, call.opponent)
              empty == Holding(call.window, EMPTY)
          IN  /\ Cardinality(Rules(ai, opp, empty)) <= 1
              /\ call.score = Table(ai, opp, empty)
              /\ (ai > 0 /\ opp > 0) => call.score = 0
    /\ call.op = "heuristic_evaluate" =>
          call.score =
              6 * Cardinality({row \in RowIdx : board[row][COLS \div 2] = call.ai_player})
              + RunsTotal(board, call.ai_player)

\* a board scored with center pieces of both players, a run of three of the
\* opponent with an Empty cell and a run holding both players
C13_Witness ==
    /\ call.op = "heuristic_evaluate"
    /\ \E r1, r2 \in RowIdx :
          /\ board[r1][COLS \div 2] = call.ai_player
          /\ board[r2][COLS \div 2] = get_opponent(call.ai_player)
    /\ \E a \in Anchors : RunScore(board, call.ai_player, a) = -8
    /\ \E a \in Anchors : RunScore(board, call.ai_player, a) = 10
    /\ call.score # RunsTotal(board, call.ai_player)
    /\ call.score # 0

\* a window of two pieces of the opponent and two Empty cells scored -4
C13_WitnessWindow ==
    /\ call.op = "_score_window"
    /\ Holding(call.window, call.opponent) = 2
    /\ Holding(call.window, EMPTY) = 2
    /\ call.score = -4

\* ---- SpecGame: the game loop play_game

\* choose_difficulty's "Easy": the depth the games below are played at
EasyDepth == 3

\* Games of play_game at depth EasyDepth with the human moving first: one
\* drawn on the full board, one the human wins.  The columns at the odd places
\* are the human's, the others are what get_best_move answers.
HumanFirstDraw == <<3, 3, 5, 4, 4, 3, 3, 3, 4, 4, 4, 3, 5, 6,
                    6, 5, 6, 4, 6, 6, 6, 1, 1, 1, 1, 0, 5, 1,
                    5, 1, 5, 2, 2, 2, 2, 2, 2, 0, 0, 0, 0, 0>>

HumanFirstWin == <<3, 3, 3, 3, 0, 2, 2, 2, 2, 4, 4, 5, 3, 4,
                   2, 5, 6, 1, 0, 3, 2, 0, 4, 5, 5, 5, 4, 4,
                   5, 6, 0, 0, 0, 6, 6, 6, 6, 1, 1>>

\* A game the human wins moving second; DrawGame is one drawn moving second.
HumanSecondWin == <<3, 3, 3, 1, 3, 3, 1, 1, 1, 1, 3, 0, 1, 0,
                    5, 4, 4, 4, 4, 4, 4, 2, 2, 0, 0, 5, 0, 5,
                    5, 5, 5, 0, 6, 6, 6, 6, 6, 6, 2, 2>>

Games(human_player) ==
    IF human_player = PLAYER_1 THEN {HumanFirstDraw, HumanFirstWin}
    ELSE {DrawGame, HumanSecondWin}

\* The columns the human enters after the moves so far: those of a game of
\* Games up to its last FreePlies plies, any column from there on.
HumanChoices(human_player, moves) ==
    {col \in ColIdx :
        \E g \in Games(human_player) :
            LET scripted == Max(0, Len(g) - FreePlies)
                k == Min(Len(moves), scripted)
            IN  /\ SubSeq(moves, 1, k) = SubSeq(g, 1, k)
                /\ Len(moves) < scripted => col = g[Len(moves) + 1]}

\* the numbers the human may type at a prompt ("col = int(raw) - 1"): a column
\* of HumanChoices, or any column that get_human_move rejects
Inputs(b, human_player, moves) ==
    {col \in TryCols :
        \/ col \in HumanChoices(human_player, moves)
        \/ col \notin ColIdx
        \/ ~IsTopEmpty(b, col)}

\* play_game after choose_player_order and choose_difficulty: the empty board,
\* PLAYER_1 to move
InitGame ==
    /\ board = create_board
    /\ n = 0
    /\ \E human_player \in Players :
          call = [op |-> "play_game", pc |-> "loop",
                  human_player |-> human_player,
                  ai_player |-> get_opponent(human_player),
                  depth |-> EasyDepth, current_player |-> PLAYER_1,
                  moves |-> <<>>, before |-> create_board, winner |-> None]

\* (mutant) the loop ends on a win only: "if get_winner(board) is not None"
LoopEnds_WinOnly(b) == get_winner(b) # None

\* "if is_terminal(board)" of play_game
LoopEnds(b) == is_terminal(b)

\* (mutant) the player is not switched
NextPlayer_Same(current_player) == current_player

\* "current_player = get_opponent(current_player)" of play_game
NextPlayer(current_player) == get_opponent(current_player)

\* The rest of an iteration after "board = make_move(board, col, player)":
\* the game-over check, which announces get_winner(board) and returns, or the
\* switch of players.
AfterMove(frame, col, new_board) ==
    LET moved == [frame EXCEPT !.moves = Append(@, col), !.before = board]
    IN  IF LoopEnds(new_board)
        THEN [moved EXCEPT !.pc = "returned", !.winner = get_winner(new_board)]
        ELSE [moved EXCEPT !.current_player = NextPlayer(@)]

\* The human's turn, one number typed at a time.  get_human_move prompts
\* again for a column out of bounds or not in get_legal_moves(board) (as it
\* does for a line that is not a number), and returns a legal column, which
\* play_game hands to make_move.
HumanTurn(col) ==
    /\ call.op = "play_game" /\ call.pc = "loop"
    /\ call.current_player = call.human_player
    /\ col \in Inputs(board, call.human_player, call.moves)
    /\ LET legal == get_legal_moves(board)
       IN  IF col < 0 \/ col >= COLS \/ \A i \in DOMAIN legal : legal[i] # col
           THEN UNCHANGED vars
           ELSE LET mv == make_move(board, col, call.human_player)
                IN  IF mv.raised
                    THEN /\ call' = [call EXCEPT !.pc = "raised"]
                         /\ UNCHANGED <<board, n>>
                    ELSE /\ board' = mv.new_board
                         /\ n' = n + 1
                         /\ call' = AfterMove(call, col, mv.new_board)

\* The input ends or is interrupted at the prompt: "except (EOFError,
\* KeyboardInterrupt)" of get_human_move ends the program with sys.exit(0).
HumanQuits ==
    /\ call.op = "play_game" /\ call.pc = "loop"
    /\ call.current_player = call.human_player
    /\ call' = [call EXCEPT !.pc = "exited"]
    /\ UNCHANGED <<board, n>>

\* The AI's turn: get_best_move, whose "legal_moves[0]" raises IndexError on
\* a board without a legal move, then make_move.
AITurn ==
    /\ call.op = "play_game" /\ call.pc = "loop"
    /\ call.current_player # call.human_player
    /\ IF get_legal_moves(board) = <<>>
       THEN /\ call' = [call EXCEPT !.pc = "raised"]
            /\ UNCHANGED <<board, n>>
       ELSE \E r \in {get_best_move(board, call.ai_player, call.depth)} :
            LET mv == make_move(board, r.best_col, call.ai_player)
            IN  IF r.raised \/ mv.raised
                THEN /\ call' = [call EXCEPT !.pc = "raised"]
                     /\ UNCHANGED <<board, n>>
                ELSE /\ board' = mv.new_board
                     /\ n' = n + 1
                     /\ call' = AfterMove(call, r.best_col, mv.new_board)

NextGame ==
    \/ \E col \in TryCols : HumanTurn(col)
    \/ HumanQuits
    \/ AITurn

SpecGame == InitGame /\ [][NextGame]_vars

InGame == call.op = "play_game"

\* C14 (moves only on open boards): in play_game every get_human_move,
\* get_best_move and make_move is given a board without a winner and with a
\* legal column; no call raises; once a move makes the board terminal the
\* loop has returned and no further move is asked for or applied.
C14_MovesOnOpenBoards ==
    InGame =>
        /\ call.pc # "raised"
        /\ call.pc \in {"loop", "exited"} => NonTerminal(board)
        /\ n > 0 => NonTerminal(call.before)
        /\ ~NonTerminal(board) => call.pc = "returned" /\ ~ENABLED NextGame

\* the loop has returned on the full board without a winner
C14_Witness ==
    /\ InGame /\ call.pc = "returned"
    /\ Full(board) /\ Owners(board) = {}
    /\ n = ROWS * COLS

Pieces(b, p) == Cardinality({cell \in Cells : b[cell[1]][cell[2]] = p})

\* the player of the k-th move of a game
Mover(k) == IF k % 2 = 1 THEN PLAYER_1 ELSE PLAYER_2

\* C15 as stated: PLAYER_1 moves first and the players alternate, each
\* iteration adding one piece of the player to move, and play_game always
\* reaches a terminal board: whenever it has stopped, the board is terminal
\* and get_winner of it has been announced.
C15_AlwaysReachesTerminal ==
    InGame =>
        /\ Pieces(board, PLAYER_1) - Pieces(board, PLAYER_2) \in {0, 1}
        /\ n <= ROWS * COLS
        /\ call.pc # "loop" =>
              /\ call.pc = "returned"
              /\ ~NonTerminal(board)
              /\ call.winner = get_winner(board)

\* C15 (amended): PLAYER_1 moves first and the players alternate, each
\* iteration adding exactly one piece of the player to move, so PLAYER_1 has
\* as many pieces as PLAYER_2 or one more; at most ROWS * COLS moves are
\* made, the loop being over when the board is full.  play_game stops either
\* by returning on a terminal board, announcing the owner of the run of 4, or
\* None on a full board without one, or by the human ending the input at a
\* prompt, on a board that is not terminal; until then it goes on only as the
\* human enters legal columns.
C15_AlternatesAndEnds ==
    InGame =>
        /\ Pieces(board, PLAYER_1) - Pieces(board, PLAYER_2) \in {0, 1}
        /\ n = Len(call.moves)
        /\ n = Pieces(board, PLAYER_1) + Pieces(board, PLAYER_2)
        /\ n <= ROWS * COLS
        /\ n = ROWS * COLS => call.pc = "returned"
        /\ call.pc \in {"loop", "returned", "exited"}
        /\ call.pc = "loop" => call.current_player = Mover(n + 1)
        /\ n > 0 =>
              /\ Cardinality(Changed(call.before, board)) = 1
              /\ \A cell \in Changed(call.before, board) :
                    /\ call.before[cell[1]][cell[2]] = EMPTY
                    /\ board[cell[1]][cell[2]] = Mover(n)
        /\ call.pc = "returned" =>
              /\ ~NonTerminal(board)
              /\ call.winner = None <=> Owners(board) = {}
              /\ call.winner # None => Owners(board) = {call.winner}
              /\ call.winner = None => Full(board)
        /\ call.pc = "exited" =>
              /\ call.current_player = call.human_player
              /\ NonTerminal(board)
              /\ call.winner = None

\* the human, moving second, has won and the loop has returned
C15_Witness ==
    /\ InGame /\ call.pc = "returned"
    /\ call.human_player = PLAYER_2
    /\ call.winner = call.human_player
    /\ Owners(board) = {PLAYER_2}
    /\ ~Full(board)

\* the game has stopped at a prompt, the board not terminal
C15_WitnessExit ==
    /\ InGame /\ call.pc = "exited"
    /\ n > 0
    /\ NonTerminal(board)
====
